---- MODULE Spec2Model ----
(***************************************************************************)
(* Batch orchestration of the datasheet extraction pipeline                *)
(* (batch_processor.py: BatchProcessor.process_batch_sync and              *)
(* BatchProcessor.process_batch_async with their per-file pipelines        *)
(* _process_file / _process_file_async and the dedup store of              *)
(* database.py).  Field writes of FileTask and BatchResult are single      *)
(* steps, so that a concurrent reader of the BatchResult sees every        *)
(* intermediate state.  Spec is the batch run.  SpecFile is one call of    *)
(* IntegratedExtractor.extract_from_file (ai_integration.py): pattern      *)
(* extraction, the decision to use the AI extractor, its call, the         *)
(* conversion of its answer and the merge.                                 *)
(***************************************************************************)
EXTENDS Integers, Sequences, FiniteSets, TLC

\* ---------------------------------------------------------------- bounds
MaxFiles == 2
MaxWorkers == 2

\* ------------------------------------------------------- the environment
\* The file system the batch runs against: a.pdf and b.pdf have the same
\* bytes, c.pdf differs, missing.pdf does not exist.
Paths == {"a.pdf", "b.pdf", "c.pdf", "missing.pdf"}

FileExists(p) == p # "missing.pdf"

_calculate_file_hash(p) == IF p \in {"a.pdf", "b.pdf"} THEN "h1" ELSE "h2"

\* the number of parameters the extractors find in a file's content
ParamsIn(p) == IF p \in {"a.pdf", "b.pdf"} THEN 2 ELSE 1

\* Python's None
None == "<None>"

\* time.time(): only "a timestamp was stored" is tracked
Now == "t"

\* ---------------------------------------------------------- data model
PENDING == "pending"
PROCESSING == "processing"
COMPLETED == "completed"
FAILED == "failed"
SKIPPED == "skipped"

Terminal == {COMPLETED, FAILED, SKIPPED}

\* the value of FileTask.result: None, {"existing_id": id}, or the
\* extraction result dict (its parameter count, and the datasheet_id added
\* after a save; 0 when there is no store)
NoResult == [kind |-> None, params |-> 0, existing_id |-> 0, datasheet_id |-> 0]

\* variant of ExistingResult that drops the stored identity
ExistingResult_no_identity(id) ==
    [kind |-> "existing", params |-> 0, existing_id |-> 0, datasheet_id |-> 0]

ExistingResult(id) ==
    [kind |-> "existing", params |-> 0, existing_id |-> id, datasheet_id |-> 0]

ExtractionResult(n, id) ==
    [kind |-> "extraction", params |-> n, existing_id |-> 0, datasheet_id |-> id]

\* FileTask(file_path=..., file_name=..., file_size=...) with its defaults
FileTask ==
    [status |-> PENDING, error_message |-> None, start_time |-> None,
     end_time |-> None, result |-> NoResult, extraction_stats |-> None]

\* the positive time between two calls of time.time()
Elapsed == 1

\* FileTask.duration of a task whose end_time is set: 0 without a
\* start_time, end_time - start_time otherwise
Duration(task) == IF task.start_time = None THEN 0 ELSE Elapsed

\* what a per-file pipeline returned or raised (the future / awaited value)
NoOutcome == [kind |-> "none", result |-> NoResult, stats |-> None, msg |-> None]

Returned(r, s) == [kind |-> "ok", result |-> r, stats |-> s, msg |-> None]

Raised(m) == [kind |-> "exc", result |-> NoResult, stats |-> None, msg |-> m]

\* str(e) of the exceptions the pipeline raises
IOErrorMsg == "[Errno 13] Permission denied"
ExtractErrorMsg == "Extraction failed"
SaveErrorMsg == "Failed to save datasheet"
LockedErrorMsg == "Failed to save datasheet: database is locked"

\* -------------------------------------- data model of the extractors
\* thresholds of ai_integration.py; confidences are kept in percent
MIN_PATTERN_CONFIDENCE == 60
MIN_PARAMETERS_THRESHOLD == 3
CONFIDENCE_BOOST == 10

\* pdf_extractor.Parameter, PartVariant and DatasheetExtraction (unit,
\* category and extraction_date are carried along unchanged and left out)
Parameter(n, v, c) == [name |-> n, value |-> v, confidence |-> c]

PartVariant(pn, ps, d) == [part_number |-> pn, parameters |-> ps, description |-> d]

DatasheetExtraction(s, f, vs, md) ==
    [supplier |-> s, product_family |-> f, variants |-> vs, metadata |-> md]

\* part_number.startswith("Unknown"), over the part numbers that occur
StartsWithUnknown(pn) == pn \in {"Unknown", "Unknown-1"}

\* three parameters found with the same confidence c
ThreeParams(c) ==
    <<Parameter("data_rate", "10G", c), Parameter("power_consumption", "1W", c),
      Parameter("temperature_range", "0-70C", c)>>

\* what the pattern extractor finds in a file: no variant, enough
\* parameters with high / low / mixed confidence, a single parameter, a
\* placeholder part number, a placeholder next to a real part number with
\* an average of exactly MIN_PATTERN_CONFIDENCE
PatternVariantLists ==
    {<<>>,
     <<PartVariant("PN-1", ThreeParams(90), "SFP module")>>,
     <<PartVariant("PN-1", ThreeParams(50), "")>>,
     <<PartVariant("PN-1", <<Parameter("data_rate", "10G", 50),
                             Parameter("power_consumption", "1W", 60),
                             Parameter("temperature_range", "0-70C", 60)>>, "")>>,
     <<PartVariant("PN-1", <<Parameter("data_rate", "10G", 90)>>, "")>>,
     <<PartVariant("Unknown-1", ThreeParams(90), "")>>,
     <<PartVariant("Unknown", <<Parameter("data_rate", "10G", 40),
                                Parameter("power_consumption", "1W", 50)>>, ""),
       PartVariant("PN-2", <<Parameter("data_rate", "25G", 90)>>, "")>>}

PatternResults ==
    {DatasheetExtraction(s, f, vs, None) :
        s \in {"Unknown", "Acme"},
        f \in {"General Electronics", "Unknown", "Transceivers"},
        vs \in PatternVariantLists}

\* the dict MistralProcessor.extract_from_pdf returns: at least one
\* variant ("Unknown" when no part number was found), each with the list
\* of parameter dicts, no description
AiResponses ==
    {[supplier |-> "Acme", product_family |-> "Transceivers",
      variants |-> <<[part_number |-> "PN-1", parameters |-> <<>>]>>],
     [supplier |-> "Acme", product_family |-> "Transceivers",
      variants |-> <<[part_number |-> "PN-3", parameters |-> <<>>]>>],
     [supplier |-> "Acme", product_family |-> "Transceivers",
      variants |-> <<[part_number |-> "PN-1", parameters |->
                        <<[name |-> "data_rate", value |-> "10G", confidence |-> 70]>>]>>],
     [supplier |-> "Unknown", product_family |-> "Unknown",
      variants |-> <<[part_number |-> "Unknown", parameters |-> <<>>]>>]}

\* None where a DatasheetExtraction / a response dict is expected
NoExtraction == DatasheetExtraction(None, None, <<>>, None)

NoAiData == [supplier |-> None, product_family |-> None, variants |-> <<>>]

\* the state of an extract_from_file call that has not been made
ExIdle ==
    [pc |-> "off", has_ai |-> FALSE, force_ai |-> FALSE, service |-> "responds",
     pattern_result |-> NoExtraction, params_count |-> 0, avg_confidence |-> 0,
     needs_ai |-> FALSE, ai_data |-> NoAiData, ai_result |-> NoExtraction,
     final_result |-> NoExtraction, error |-> None, ai_calls |-> 0]

\* ---- the arguments _merge_extraction_results is called with
\* pattern side: a parameter the AI side ties with / exceeds / undercuts, a
\* confidence near 1.0, a second part number, a variant without
\* parameters, no variant, and a variant that repeats a name
MergePatternVariants ==
    {<<>>,
     <<PartVariant("PN-1", <<Parameter("data_rate", "10G", 80),
                             Parameter("power_consumption", "1W", 95)>>, "")>>,
     <<PartVariant("PN-1", <<Parameter("data_rate", "10G", 70)>>, "SFP module"),
       PartVariant("PN-2", <<Parameter("power_consumption", "2W", 60)>>, "")>>,
     <<PartVariant("PN-1", <<>>, "")>>,
     <<PartVariant("PN-1", <<Parameter("data_rate", "10G", 50),
                             Parameter("data_rate", "40G", 60)>>, "")>>}

\* AI side: the same name with an equal / higher / lower confidence, a new
\* name, a new part number, confidence 1.0, a confidence above 1.0, a
\* repeated name and a repeated part number
MergeAiVariants ==
    {<<>>,
     <<PartVariant("PN-1", <<Parameter("data_rate", "10G-ai", 80)>>, "AI text")>>,
     <<PartVariant("PN-1", <<Parameter("data_rate", "10G-ai", 90),
                             Parameter("temperature_range", "0-70C", 95)>>, "")>>,
     <<PartVariant("PN-1", <<Parameter("power_consumption", "1W-ai", 100)>>, "")>>,
     <<PartVariant("PN-1", <<Parameter("power_consumption", "1W-ai", 60)>>, ""),
       PartVariant("PN-3", <<Parameter("data_rate", "25G", 70)>>, "AI text")>>,
     <<PartVariant("PN-3", <<Parameter("data_rate", "25G", 150)>>, "")>>,
     <<PartVariant("PN-1", <<Parameter("data_rate", "a", 60),
                             Parameter("data_rate", "b", 60)>>, "")>>,
     <<PartVariant("PN-3", <<Parameter("data_rate", "25G", 70)>>, ""),
       PartVariant("PN-3", <<Parameter("data_rate", "50G", 70)>>, "")>>}

MergePatternInputs ==
    {DatasheetExtraction(sp, f, vs, None) :
        sp \in {"Unknown", "Acme"},
        f \in {"General Electronics", "Unknown", "Transceivers"},
        vs \in MergePatternVariants}

MergeAiInputs ==
    {DatasheetExtraction(sp, f, vs, "ai") :
        sp \in {"Unknown", "Beta"},
        f \in {"General Electronics", "Unknown", "Switches"},
        vs \in MergeAiVariants}

\* validate_extraction has not been called
NoReport ==
    [outcome |-> None, total_parameters |-> 0, average_confidence |-> 0,
     found_critical |-> {}, valid_part_numbers |-> 0, quality_score |-> 0]

\* no call of _merge_extraction_results in progress
MgIdle ==
    [pc |-> "off", pattern0 |-> NoExtraction, ai0 |-> NoExtraction,
     pattern_result |-> NoExtraction, ai_result |-> NoExtraction,
     all_variants |-> <<>>, vi |-> 0, pi |-> 0,
     merged_result |-> NoExtraction, first_result |-> NoExtraction, calls |-> 0,
     report |-> NoReport]

\* a MistralProcessor.extract_from_pdf call that has not been made
RtIdle ==
    [pc |-> "off", answers |-> <<>>, text_ok |-> TRUE, tries |-> 0,
     api_calls |-> 0, waits |-> 0, raised |-> None, escaped |-> None]

\* the database before init_database has a row: datasheets (file_hash per
\* id), parameters (datasheet_id per row), parts (part_number -> datasheet_id)
StIdle ==
    [open |-> FALSE, datasheets |-> <<>>, parameters |-> <<>>, parts |-> <<>>,
     saves |-> 0, last |-> [file_hash |-> None, existing |-> 0, returned |-> 0]]

\* an extract_from_bytes call that has not been made
BtIdle == [pc |-> "off", tmp_files |-> 0, tmp_path |-> None, error |-> None]

VARIABLES
    file_paths,        \* the input list
    max_workers,       \* BatchProcessor.max_workers
    mode,              \* "sync": process_batch_sync, "async": process_batch_async
    has_db,            \* a db_manager is configured
    main_pc,           \* position of process_batch_*: setup, run, returned, raised
    setup_i,           \* index of the task-creation loop
    total_files, completed_files, failed_files, skipped_files,
    total_parameters,
    total_duration,    \* BatchResult.total_duration, in units of Elapsed
    end_time,          \* BatchResult.end_time
    tasks,             \* BatchResult.tasks: file_path -> FileTask
    pc,                \* position of each unit of work (one per list entry)
    running,           \* the unit the event loop / the collecting thread executes, 0: none
    fut,               \* outcome of each unit's per-file pipeline
    db,                \* datasheets table: sequence of file_hash, id = index
    extract_calls,     \* per unit: invocations of the extractor
    save_calls,        \* per unit: invocations of save_datasheet
    cb_seen,           \* completed + failed + skipped as each progress_callback call saw it
    cb_calls,          \* per unit: invocations of progress_callback
    ex,                \* one call of IntegratedExtractor.extract_from_file
    mg,                \* one call of _merge_extraction_results and its two arguments
    rt,                \* one call of MistralProcessor.extract_from_pdf (with its retries)
    st,                \* the tables of DatabaseManager and the save_datasheet calls made
    bt                 \* one call of IntegratedExtractor.extract_from_bytes

vars == <<file_paths, max_workers, mode, has_db, main_pc, setup_i, total_files,
          completed_files, failed_files, skipped_files, total_parameters,
          total_duration, end_time, tasks, pc, running, fut, db, extract_calls,
          save_calls, cb_seen, cb_calls, ex, mg, rt, st, bt>>

config == <<file_paths, max_workers, mode, has_db>>
batch == <<main_pc, setup_i, total_files, end_time, tasks, pc, running, fut, db>>
counters == <<completed_files, failed_files, skipped_files, total_parameters,
              total_duration>>
callbacks == <<cb_seen, cb_calls>>
ghost == <<extract_calls, save_calls>>
aside == <<rt, st, bt>>

Units == 1..Len(file_paths)

\* variant of PathOf in which every unit writes the first entry's task
PathOf_first(u) == file_paths[1]

\* the file_path a unit of work was submitted with
PathOf(u) == file_paths[u]

SeqsUpTo(S, n) == UNION {[1..k -> S] : k \in 0..n}

\* a.pdf and b.pdf are interchangeable (same bytes, both exist): of two
\* lists that differ by exchanging the two names only the one that names
\* a.pdf first is run
Canonical(l) ==
    \A i \in DOMAIN l : l[i] = "b.pdf" => \E j \in 1..(i - 1) : l[j] = "a.pdf"

\* BatchResult.is_complete
is_complete ==
    completed_files + failed_files + skipped_files >= total_files

\* ------------------------------------------------------------------ Init
\* The state right after BatchResult(total_files=len(file_paths)).
Init ==
    /\ file_paths \in {l \in SeqsUpTo(Paths, MaxFiles) : Canonical(l)}
    /\ max_workers \in 1..MaxWorkers
    /\ mode \in {"sync", "async"}
    /\ has_db \in BOOLEAN
    /\ main_pc = "setup"
    /\ setup_i = 1
    /\ total_files = Len(file_paths)
    /\ completed_files = 0
    /\ failed_files = 0
    /\ skipped_files = 0
    /\ total_parameters = 0
    /\ total_duration = 0
    /\ end_time = None
    /\ tasks = <<>>
    /\ pc = [u \in 1..Len(file_paths) |-> "queued"]
    /\ running = 0
    /\ fut = [u \in 1..Len(file_paths) |-> NoOutcome]
    /\ db = <<>>
    /\ extract_calls = [u \in 1..Len(file_paths) |-> 0]
    /\ save_calls = [u \in 1..Len(file_paths) |-> 0]
    /\ cb_seen = <<>>
    /\ cb_calls = [u \in 1..Len(file_paths) |-> 0]
    /\ ex = ExIdle
    /\ mg = MgIdle
    /\ rt = RtIdle
    /\ st = StIdle
    /\ bt = BtIdle

\* ----------------------------------------------------------------- setup
\* one iteration of "for file_path in file_paths": os.path.getsize raises
\* for a path that does not exist, otherwise result.tasks[file_path] = task
CreateTask ==
    /\ main_pc = "setup"
    /\ setup_i <= Len(file_paths)
    /\ LET p == file_paths[setup_i] IN
         IF FileExists(p)
           THEN /\ tasks' = [q \in (DOMAIN tasks) \cup {p} |->
                               IF q = p THEN FileTask ELSE tasks[q]]
                /\ setup_i' = setup_i + 1
                /\ main_pc' = main_pc
           ELSE /\ main_pc' = "raised"
                /\ UNCHANGED <<tasks, setup_i>>
    /\ UNCHANGED <<aside, mg, ex, config, callbacks, total_files, counters, end_time, pc, running, fut,
                   db, ghost>>

\* the loop is over: the executor / the semaphore and coroutines are created
BeginRun ==
    /\ main_pc = "setup"
    /\ setup_i > Len(file_paths)
    /\ main_pc' = "run"
    /\ UNCHANGED <<aside, mg, ex, config, callbacks, setup_i, total_files, counters, end_time, tasks, pc,
                   running, fut, db, ghost>>

\* ------------------------------------------------------ unit scheduling
\* pipeline positions that occupy a thread of the ThreadPoolExecutor
InPipeline == {"hash", "extract", "save", "insert"}

\* variant of Active in which no unit ever counts as holding a worker
Active_unbounded == {}

\* units holding a worker: a pool thread (sync, until _process_file returns)
\* or the semaphore (async, the whole "async with semaphore" block)
Active ==
    IF mode = "sync"
      THEN {u \in Units : pc[u] \in InPipeline}
      ELSE {u \in Units : pc[u] \notin {"queued", "finished"}}

\* the executor's work queue and the semaphore's waiters are FIFO
HeadOfQueue(u) == \A v \in Units : v < u => pc[v] # "queued"

\* steps that run on the event loop (async) or in the thread that iterates
\* as_completed (sync) exclude each other; pool threads do not
OnLoop(u) == running \in {0, u}

\* a pool thread takes the unit: _process_file starts
SyncStart(u) ==
    /\ main_pc = "run"
    /\ mode = "sync"
    /\ pc[u] = "queued"
    /\ HeadOfQueue(u)
    /\ Cardinality(Active) < max_workers
    /\ pc' = [pc EXCEPT ![u] = "hash"]
    /\ UNCHANGED <<aside, mg, ex, config, callbacks, main_pc, setup_i, total_files, counters, end_time,
                   tasks, running, fut, db, ghost>>

\* the coroutine enters "async with semaphore" and writes
\* task.status = ProcessingStatus.PROCESSING
AsyncStart(u) ==
    /\ main_pc = "run"
    /\ mode = "async"
    /\ pc[u] = "queued"
    /\ HeadOfQueue(u)
    /\ Cardinality(Active) < max_workers
    /\ running = 0
    /\ running' = u
    /\ tasks' = [tasks EXCEPT ![PathOf(u)].status = PROCESSING]
    /\ pc' = [pc EXCEPT ![u] = "set_start"]
    /\ UNCHANGED <<aside, mg, ex, config, callbacks, main_pc, setup_i, total_files, counters, end_time,
                   fut, db, ghost>>

\* task.start_time = time.time()
SetStartTime(u) ==
    /\ pc[u] = "set_start"
    /\ running = u
    /\ tasks' = [tasks EXCEPT ![PathOf(u)].start_time = Now]
    /\ pc' = [pc EXCEPT ![u] = "hash"]
    /\ UNCHANGED <<aside, mg, ex, config, callbacks, main_pc, setup_i, total_files, counters, end_time,
                   running, fut, db, ghost>>

\* ---------------------------------------------------- per-file pipeline
\* SELECT id FROM datasheets WHERE file_hash = ?  (0: no row)
FindByHash(h) ==
    IF \E i \in 1..Len(db) : db[i] = h
      THEN CHOOSE i \in 1..Len(db) : db[i] = h /\ \A j \in 1..(i - 1) : db[j] # h
      ELSE 0

\* variant of _check_file_exists that lets the lookup error out (-1)
_check_file_exists_raises(h, failed) ==
    IF ~has_db THEN 0
    ELSE IF failed THEN -1
    ELSE FindByHash(h)

\* _check_file_exists: the row id, or None (0) when there is no row, no
\* db_manager, or the lookup raised (failed = TRUE)
_check_file_exists(h, failed) ==
    IF ~has_db THEN 0
    ELSE IF failed THEN 0
    ELSE FindByHash(h)

\* the pipeline returned or raised: the future is resolved (sync) or the
\* coroutine goes on to record the outcome (async)
Resolve(u, outcome) ==
    /\ fut' = [fut EXCEPT ![u] = outcome]
    /\ pc' = [pc EXCEPT ![u] = "rec_status"]

\* _calculate_file_hash, then the dedup check: a read error raises, a hit
\* returns ({"existing_id": existing}, {"skipped": True}), a miss goes on
\* to the extractor
HashAndCheck(u) ==
    /\ pc[u] = "hash"
    /\ mode = "async" => running = u
    /\ \E readable \in BOOLEAN, failed \in BOOLEAN :
         LET existing == _check_file_exists(_calculate_file_hash(PathOf(u)), failed) IN
           IF ~readable
             THEN /\ Resolve(u, Raised(IOErrorMsg))
                  /\ running' = running
             ELSE IF existing # 0
               THEN /\ Resolve(u, Returned(ExistingResult(existing), "skipped_stats"))
                    /\ running' = running
               ELSE /\ pc' = [pc EXCEPT ![u] = "extract"]
                    /\ fut' = fut
                    \* the extraction may run on the loop (pattern step of the
                    \* integrated extractor) or be awaited (executor, AI call)
                    /\ running' \in (IF mode = "async" THEN {0, u} ELSE {running})
    /\ UNCHANGED <<aside, mg, ex, config, callbacks, main_pc, setup_i, total_files, counters, end_time,
                   tasks, db, ghost>>

\* the extractor (integrated or pattern-only) returns a result or raises;
\* without a db_manager the pipeline returns here
Extract(u) ==
    /\ pc[u] = "extract"
    /\ mode = "async" => OnLoop(u)
    /\ extract_calls' = [extract_calls EXCEPT ![u] = @ + 1]
    /\ \E ok \in BOOLEAN :
         IF ~ok
           THEN /\ Resolve(u, Raised(ExtractErrorMsg))
                /\ running' = (IF mode = "async" THEN u ELSE running)
           ELSE IF has_db
             THEN /\ fut' = [fut EXCEPT ![u] = [NoOutcome EXCEPT
                                 !.result = ExtractionResult(ParamsIn(PathOf(u)), 0)]]
                  /\ pc' = [pc EXCEPT ![u] = "save"]
                  \* sync: same thread; async: run_in_executor, the loop is free
                  /\ running' = (IF mode = "async" THEN 0 ELSE running)
             ELSE /\ Resolve(u, Returned(ExtractionResult(ParamsIn(PathOf(u)), 0), "stats"))
                  /\ running' = (IF mode = "async" THEN u ELSE running)
    /\ UNCHANGED <<aside, mg, ex, config, callbacks, main_pc, setup_i, total_files, counters, end_time,
                   tasks, db, save_calls>>

\* save_datasheet, first half: BEGIN and the SELECT by file_hash; an
\* existing row's id is returned without inserting
SaveSelect(u) ==
    /\ pc[u] = "save"
    /\ save_calls' = [save_calls EXCEPT ![u] = @ + 1]
    /\ \E ok \in BOOLEAN :
         LET existing == FindByHash(_calculate_file_hash(PathOf(u))) IN
           IF ~ok
             THEN Resolve(u, Raised(SaveErrorMsg))
             ELSE IF existing # 0
               THEN Resolve(u, Returned([fut[u].result EXCEPT !.datasheet_id = existing],
                                        "stats"))
               ELSE /\ pc' = [pc EXCEPT ![u] = "insert"]
                    /\ fut' = fut
    /\ UNCHANGED <<aside, mg, ex, config, callbacks, main_pc, setup_i, total_files, counters, end_time,
                   tasks, running, db, extract_calls>>

\* another unit's save_datasheet is between its SELECT and its INSERT: its
\* transaction (BEGIN, deferred) holds the read lock it took for the SELECT
OtherTransactionOpen(u) == \E v \in Units : v # u /\ pc[v] = "insert"

\* save_datasheet, second half: INSERT, commit, return lastrowid; any
\* sqlite error is raised as DatabaseError.  SQLite serialises the
\* transactions: while another transaction that has read is open, this one
\* cannot be committed, and its INSERT fails with "database is locked" (it
\* may also just wait for the other to end).
SaveInsert(u) ==
    /\ pc[u] = "insert"
    /\ IF OtherTransactionOpen(u)
         THEN /\ Resolve(u, Raised(LockedErrorMsg))
              /\ db' = db
         ELSE \E ok \in BOOLEAN :
                IF ~ok
                  THEN /\ Resolve(u, Raised(SaveErrorMsg))
                       /\ db' = db
                  ELSE /\ db' = Append(db, _calculate_file_hash(PathOf(u)))
                       /\ Resolve(u, Returned([fut[u].result EXCEPT
                                                  !.datasheet_id = Len(db) + 1], "stats"))
    /\ UNCHANGED <<aside, mg, ex, config, callbacks, main_pc, setup_i, total_files, counters,
                   end_time, tasks, running, ghost>>

\* --------------------------------------------- recording a file's outcome
\* Run by the thread iterating as_completed (sync) or by the unit's own
\* coroutine without an await in between (async); every field write is a
\* step of its own.
ThisTask(u) == tasks[PathOf(u)]

\* future.result() returned, or raised into "except Exception as e"
Succeeded(u) == fut[u].kind = "ok"

\* the status written first in each branch
OutcomeStatus(o) == IF o.kind = "ok" THEN COMPLETED ELSE FAILED

\* variant of ErrorMessage in which the except branch stores no message
ErrorMessage_not_stored(o) == None

\* str(e)
ErrorMessage(o) == o.msg

\* variant of Tally in which the except branch loses its increment
Tally_failure_lost(o) == IF o.kind = "ok" THEN <<1, 0, 0>> ELSE <<0, 0, 0>>

\* variant of Tally in which a failure is counted as completed as well
Tally_failure_twice(o) == IF o.kind = "ok" THEN <<1, 0, 0>> ELSE <<1, 1, 0>>

\* the counter increments of each branch: <<completed, failed, skipped>>
Tally(o) == IF o.kind = "ok" THEN <<1, 0, 0>> ELSE <<0, 1, 0>>

\* variant of ParamCount that counts a dedup hit as one parameter
ParamCount_counts_hits(r) ==
    IF r.kind = "extraction" THEN r.params ELSE IF r.kind = "existing" THEN 1 ELSE 0

\* sum(len(variant.get("parameters", [])) ...) when the result has "variants"
ParamCount(r) == IF r.kind = "extraction" THEN r.params ELSE 0

\* task.status = ProcessingStatus.COMPLETED / FAILED
RecordStatus(u) ==
    /\ pc[u] = "rec_status"
    /\ OnLoop(u)
    /\ running' = u
    /\ tasks' = [tasks EXCEPT ![PathOf(u)].status = OutcomeStatus(fut[u])]
    /\ pc' = [pc EXCEPT ![u] = "rec_end"]
    /\ UNCHANGED <<aside, mg, ex, config, callbacks, main_pc, setup_i, total_files, counters, end_time,
                   fut, db, ghost>>

\* task.end_time = time.time()
RecordEndTime(u) ==
    /\ pc[u] = "rec_end"
    /\ running = u
    /\ tasks' = [tasks EXCEPT ![PathOf(u)].end_time = Now]
    /\ pc' = [pc EXCEPT ![u] = "rec_result"]
    /\ UNCHANGED <<aside, mg, ex, config, callbacks, main_pc, setup_i, total_files, counters, end_time,
                   running, fut, db, ghost>>

\* task.result = task_result and task.extraction_stats = extraction_stats,
\* or task.error_message = str(e)
RecordResult(u) ==
    /\ pc[u] = "rec_result"
    /\ running = u
    /\ IF Succeeded(u)
         THEN tasks' = [tasks EXCEPT ![PathOf(u)].result = fut[u].result,
                                     ![PathOf(u)].extraction_stats = fut[u].stats]
         ELSE tasks' = [tasks EXCEPT ![PathOf(u)].error_message = ErrorMessage(fut[u])]
    /\ pc' = [pc EXCEPT ![u] = "rec_count"]
    /\ UNCHANGED <<aside, mg, ex, config, callbacks, main_pc, setup_i, total_files, counters, end_time,
                   running, fut, db, ghost>>

\* result.completed_files += 1, or result.failed_files += 1, and
\* result.total_duration += task.duration
RecordCount(u) ==
    /\ pc[u] = "rec_count"
    /\ running = u
    /\ completed_files' = completed_files + Tally(fut[u])[1]
    /\ failed_files' = failed_files + Tally(fut[u])[2]
    /\ skipped_files' = skipped_files + Tally(fut[u])[3]
    /\ total_duration' = total_duration + Duration(ThisTask(u))
    /\ pc' = [pc EXCEPT ![u] = IF Succeeded(u) THEN "rec_params" ELSE "rec_cb"]
    /\ UNCHANGED <<aside, mg, ex, config, callbacks, main_pc, setup_i, total_files, total_parameters,
                   end_time, tasks, running, fut, db, ghost>>

\* result.total_parameters += param_count
CountParameters(u) ==
    /\ pc[u] = "rec_params"
    /\ running = u
    /\ total_parameters' = total_parameters + ParamCount(fut[u].result)
    /\ pc' = [pc EXCEPT ![u] = "rec_cb"]
    /\ UNCHANGED <<aside, mg, ex, config, callbacks, main_pc, setup_i, total_files,
                   completed_files, failed_files, skipped_files, total_duration,
                   end_time, tasks, running, fut, db, ghost>>

\* variant of CallbackArg that does not see the failures
CallbackArg_stale == completed_files + skipped_files

\* progress_callback(result) is handed the live BatchResult: the sum of
\* the counters the callback reads from it
CallbackArg == completed_files + failed_files + skipped_files

\* variant of AfterCallbackError in which the exception leaves process_batch
AfterCallbackError_propagates(m) == "raised"

\* "except Exception as e: logger.error(...)" around the callback: the
\* runner goes on from where it was
AfterCallbackError(m) == m

\* progress_callback(result) is called, by the thread iterating
\* as_completed (sync) or on the event loop (async)
CallbackEnter(u) ==
    /\ pc[u] = "rec_cb"
    /\ running = u
    /\ cb_seen' = Append(cb_seen, CallbackArg)
    /\ cb_calls' = [cb_calls EXCEPT ![u] = @ + 1]
    /\ pc' = [pc EXCEPT ![u] = "in_cb"]
    /\ UNCHANGED <<aside, mg, ex, config, main_pc, setup_i, total_files, counters, end_time,
                   tasks, running, fut, db, ghost>>

\* the callback returns; then the next future is taken (sync) or the
\* semaphore is released (async)
CallbackReturn(u) ==
    /\ pc[u] = "in_cb"
    /\ running = u
    /\ running' = 0
    /\ pc' = [pc EXCEPT ![u] = "finished"]
    /\ UNCHANGED <<aside, mg, ex, config, callbacks, main_pc, setup_i, total_files, counters,
                   end_time, tasks, fut, db, ghost>>

\* the callback raises into "except Exception as e"
CallbackRaise(u) ==
    /\ pc[u] = "in_cb"
    /\ running = u
    /\ pc' = [pc EXCEPT ![u] = "cb_logged"]
    /\ UNCHANGED <<aside, mg, ex, config, callbacks, main_pc, setup_i, total_files, counters,
                   end_time, tasks, running, fut, db, ghost>>

\* logger.error(f"Error in progress callback: {str(e)}"): the runner goes
\* on as after a return of the callback
CallbackLogged(u) ==
    /\ pc[u] = "cb_logged"
    /\ running = u
    /\ main_pc' = AfterCallbackError(main_pc)
    /\ running' = 0
    /\ pc' = [pc EXCEPT ![u] = "finished"]
    /\ UNCHANGED <<aside, mg, ex, config, callbacks, setup_i, total_files, counters,
                   end_time, tasks, fut, db, ghost>>

\* every future was consumed / gather returned: result.end_time = time.time()
\* and the BatchResult is returned
Return ==
    /\ main_pc = "run"
    /\ \A u \in Units : pc[u] = "finished"
    /\ end_time' = Now
    /\ main_pc' = "returned"
    /\ UNCHANGED <<aside, mg, ex, config, callbacks, setup_i, total_files, counters, tasks, pc, running,
                   fut, db, ghost>>

Next ==
    \/ CreateTask
    \/ BeginRun
    \/ \E u \in Units : SyncStart(u)
    \/ \E u \in Units : AsyncStart(u)
    \/ \E u \in Units : SetStartTime(u)
    \/ \E u \in Units : HashAndCheck(u)
    \/ \E u \in Units : Extract(u)
    \/ \E u \in Units : SaveSelect(u)
    \/ \E u \in Units : SaveInsert(u)
    \/ \E u \in Units : RecordStatus(u)
    \/ \E u \in Units : RecordEndTime(u)
    \/ \E u \in Units : RecordResult(u)
    \/ \E u \in Units : RecordCount(u)
    \/ \E u \in Units : CountParameters(u)
    \/ \E u \in Units : CallbackEnter(u)
    \/ \E u \in Units : CallbackReturn(u)
    \/ \E u \in Units : CallbackRaise(u)
    \/ \E u \in Units : CallbackLogged(u)
    \/ Return

Spec == Init /\ [][Next]_vars

\* ================================ IntegratedExtractor.extract_from_file
\* One call of extract_from_file: the pattern extractor, the decision to
\* use the AI extractor, the call of MistralProcessor.extract_from_pdf, the
\* conversion of its answer and the merge.
\* variant of Min that never clamps to its first argument
Min_second(a, b) == b

Min(a, b) == IF a < b THEN a ELSE b

\* variant of MoreConfident in which a tie goes to the AI parameter
MoreConfident_or_equal(param, existing_param) ==
    param.confidence >= existing_param.confidence

\* "if param.confidence > existing_param.confidence:"
MoreConfident(param, existing_param) ==
    param.confidence > existing_param.confidence

RECURSIVE SumConfidence(_)
SumConfidence(ps) ==
    IF ps = <<>> THEN 0 ELSE Head(ps).confidence + SumConfidence(Tail(ps))

\* sum(len(variant.parameters) for variant in result.variants)
RECURSIVE CountParams(_)
CountParams(vs) ==
    IF vs = <<>> THEN 0 ELSE Len(Head(vs).parameters) + CountParams(Tail(vs))

\* sum(param.confidence for variant in ... for param in variant.parameters)
RECURSIVE ConfidenceSum(_)
ConfidenceSum(vs) ==
    IF vs = <<>> THEN 0 ELSE SumConfidence(Head(vs).parameters) + ConfidenceSum(Tail(vs))

\* stats.pattern_confidence_avg: 0.0 without parameters, else the mean.
\* The integer part of the mean in percent: it is below the integer
\* threshold exactly when the mean is.
AvgConfidence(vs) ==
    IF CountParams(vs) > 0 THEN ConfidenceSum(vs) \div CountParams(vs) ELSE 0

\* variant of _needs_ai_extraction whose confidence test is "<="
_needs_ai_extraction_at_threshold(pattern_result, params_count, avg_confidence) ==
    IF ~ex.has_ai THEN FALSE
    ELSE IF params_count < MIN_PARAMETERS_THRESHOLD THEN TRUE
    ELSE IF avg_confidence <= MIN_PATTERN_CONFIDENCE THEN TRUE
    ELSE IF \/ pattern_result.supplier = "Unknown"
            \/ pattern_result.product_family = "General Electronics" THEN TRUE
    ELSE IF \/ pattern_result.variants = <<>>
            \/ \A i \in DOMAIN pattern_result.variants :
                  StartsWithUnknown(pattern_result.variants[i].part_number) THEN TRUE
    ELSE FALSE

_needs_ai_extraction(pattern_result, params_count, avg_confidence) ==
    IF ~ex.has_ai THEN FALSE
    ELSE IF params_count < MIN_PARAMETERS_THRESHOLD THEN TRUE
    ELSE IF avg_confidence < MIN_PATTERN_CONFIDENCE THEN TRUE
    ELSE IF \/ pattern_result.supplier = "Unknown"
            \/ pattern_result.product_family = "General Electronics" THEN TRUE
    ELSE IF \/ pattern_result.variants = <<>>
            \/ \A i \in DOMAIN pattern_result.variants :
                  StartsWithUnknown(pattern_result.variants[i].part_number) THEN TRUE
    ELSE FALSE

\* variant of UseFallback that ignores whether an AI extractor exists
UseFallback_unguarded(needs_ai, has_ai) == needs_ai

\* "if needs_ai and self.ai_extractor:"
UseFallback(needs_ai, has_ai) == needs_ai /\ has_ai

\* Parameter(..., extraction_method="ai"): the dataclass has no such
\* field, so building the first parameter raises TypeError
ConversionRaises(ai_data) ==
    \E i \in DOMAIN ai_data.variants : ai_data.variants[i].parameters # <<>>

\* _convert_ai_result_to_extraction, when it returns
_convert_ai_result_to_extraction(ai_data) ==
    DatasheetExtraction(ai_data.supplier, ai_data.product_family,
        [i \in DOMAIN ai_data.variants |->
            PartVariant(ai_data.variants[i].part_number,
                [j \in DOMAIN ai_data.variants[i].parameters |->
                    Parameter(ai_data.variants[i].parameters[j].name,
                              ai_data.variants[i].parameters[j].value,
                              ai_data.variants[i].parameters[j].confidence)],
                "")],
        "ai")

\* ---- _merge_extraction_results
\* A Python dict is kept as the sequence of its values in insertion order;
\* assigning to an existing key keeps the key's position.
IndexOfName(ps, n) ==
    IF \E i \in DOMAIN ps : ps[i].name = n
      THEN CHOOSE i \in DOMAIN ps : ps[i].name = n
      ELSE 0

IndexOfPart(vs, pn) ==
    IF \E i \in DOMAIN vs : vs[i].part_number = pn
      THEN CHOOSE i \in DOMAIN vs : vs[i].part_number = pn
      ELSE 0

\* {param.name: param for param in variant.parameters}
RECURSIVE ParamDict(_)
ParamDict(ps) ==
    IF ps = <<>> THEN <<>>
    ELSE LET d == ParamDict(SubSeq(ps, 1, Len(ps) - 1))
             q == ps[Len(ps)]
             i == IndexOfName(d, q.name)
         IN IF i = 0 THEN Append(d, q) ELSE [d EXCEPT ![i] = q]

\* "Process pattern variants first": all_variants[variant.part_number] = {...}
RECURSIVE PatternVariants(_)
PatternVariants(vs) ==
    IF vs = <<>> THEN <<>>
    ELSE LET d == PatternVariants(SubSeq(vs, 1, Len(vs) - 1))
             v == [vs[Len(vs)] EXCEPT !.parameters = ParamDict(@)]
             i == IndexOfPart(d, v.part_number)
         IN IF i = 0 THEN Append(d, v) ELSE [d EXCEPT ![i] = v]

\* one AI parameter against the parameters of the existing variant: the
\* strictly more confident one is kept, its confidence raised by
\* CONFIDENCE_BOOST up to 1.0; a new name is added
MergeParam(ps, q) ==
    LET i == IndexOfName(ps, q.name) IN
      IF i = 0 THEN Append(ps, q)
      ELSE IF MoreConfident(q, ps[i])
        THEN [ps EXCEPT ![i] =
                 [q EXCEPT !.confidence = Min(100, q.confidence + CONFIDENCE_BOOST)]]
        ELSE [ps EXCEPT ![i].confidence = Min(100, @ + CONFIDENCE_BOOST)]

RECURSIVE MergeParams(_, _)
MergeParams(ps, qs) ==
    IF qs = <<>> THEN ps ELSE MergeParams(MergeParam(ps, Head(qs)), Tail(qs))

\* one AI variant against all_variants
MergeVariant(vs, v) ==
    LET i == IndexOfPart(vs, v.part_number) IN
      IF i = 0 THEN Append(vs, [v EXCEPT !.parameters = ParamDict(@)])
      ELSE [vs EXCEPT ![i] =
              [part_number |-> @.part_number,
               description |-> IF @.description = "" /\ v.description # ""
                                 THEN v.description ELSE @.description,
               parameters |-> MergeParams(@.parameters, v.parameters)]]

RECURSIVE MergeVariants(_, _)
MergeVariants(vs, ws) ==
    IF ws = <<>> THEN vs ELSE MergeVariants(MergeVariant(vs, Head(ws)), Tail(ws))

_merge_extraction_results(pattern_result, ai_result) ==
    DatasheetExtraction(
        IF pattern_result.supplier = "Unknown" /\ ai_result.supplier # "Unknown"
          THEN ai_result.supplier ELSE pattern_result.supplier,
        IF /\ pattern_result.product_family = "General Electronics"
           /\ ai_result.product_family # "Unknown"
          THEN ai_result.product_family ELSE pattern_result.product_family,
        MergeVariants(PatternVariants(pattern_result.variants), ai_result.variants),
        "merged")

\* no batch is running: the variables of the BatchProcessor are at rest
NoBatch ==
    /\ file_paths = <<>>
    /\ max_workers = 1
    /\ mode = "sync"
    /\ has_db = FALSE
    /\ main_pc = "off"
    /\ setup_i = 1
    /\ total_files = 0
    /\ completed_files = 0
    /\ failed_files = 0
    /\ skipped_files = 0
    /\ total_parameters = 0
    /\ total_duration = 0
    /\ end_time = None
    /\ tasks = <<>>
    /\ pc = <<>>
    /\ running = 0
    /\ fut = <<>>
    /\ db = <<>>
    /\ extract_calls = <<>>
    /\ save_calls = <<>>
    /\ cb_seen = <<>>
    /\ cb_calls = <<>>

\* ---- the steps of extract_from_file
\* the state right after the call: no step taken yet
InitFile ==
    /\ file_paths = <<>>
    /\ max_workers = 1
    /\ mode = "sync"
    /\ has_db = FALSE
    /\ main_pc = "off"
    /\ setup_i = 1
    /\ total_files = 0
    /\ completed_files = 0
    /\ failed_files = 0
    /\ skipped_files = 0
    /\ total_parameters = 0
    /\ total_duration = 0
    /\ end_time = None
    /\ tasks = <<>>
    /\ pc = <<>>
    /\ running = 0
    /\ fut = <<>>
    /\ db = <<>>
    /\ extract_calls = <<>>
    /\ save_calls = <<>>
    /\ cb_seen = <<>>
    /\ cb_calls = <<>>
    /\ mg = MgIdle
    /\ rt = RtIdle
    /\ st = StIdle
    /\ bt = BtIdle
    /\ \E has_ai \in BOOLEAN, force_ai \in BOOLEAN, service \in {"responds", "silent"} :
         ex = [ExIdle EXCEPT !.pc = "pattern", !.has_ai = has_ai,
                             !.force_ai = force_ai, !.service = service]

\* variant of ExRaise that carries on to the AI extractor
ExRaise_continues == [ex EXCEPT !.pc = "ai_call"]

\* "except Exception as e: raise AIIntegrationError(...)"
ExRaise == [ex EXCEPT !.pc = "raised", !.error = ExtractErrorMsg]

\* Step 1: self.pattern_extractor.extract_from_file(file_path) returns a
\* result or raises
PatternExtract ==
    /\ ex.pc = "pattern"
    /\ \/ \E r \in PatternResults : ex' = [ex EXCEPT !.pc = "decide", !.pattern_result = r]
       \/ ex' = ExRaise
    /\ UNCHANGED <<aside, mg, config, batch, counters, ghost, callbacks>>

\* Steps 2 and 3: the parameter count, the average confidence and needs_ai
DecideFallback ==
    /\ ex.pc = "decide"
    /\ LET n == CountParams(ex.pattern_result.variants)
           avg == AvgConfidence(ex.pattern_result.variants)
           needs_ai == ex.force_ai \/ _needs_ai_extraction(ex.pattern_result, n, avg)
       IN ex' = [ex EXCEPT !.params_count = n, !.avg_confidence = avg,
                           !.needs_ai = needs_ai,
                           !.pc = IF UseFallback(needs_ai, ex.has_ai)
                                    THEN "ai_call" ELSE "finish"]
    /\ UNCHANGED <<aside, mg, config, batch, counters, ghost, callbacks>>

\* Step 4: the file is read and self.ai_extractor.extract_from_pdf awaited
AiCall ==
    /\ ex.pc = "ai_call"
    /\ ex' = [ex EXCEPT !.pc = "ai_wait", !.ai_calls = @ + 1]
    /\ UNCHANGED <<aside, mg, config, batch, counters, ghost, callbacks>>

\* extract_from_pdf returns its dict or raises MistralProcessorError,
\* which is logged ("Continue with pattern extraction result only"); a
\* service that does not answer leaves the await pending
AiRespond ==
    /\ ex.pc = "ai_wait"
    /\ ex.service = "responds"
    /\ \/ \E d \in AiResponses : ex' = [ex EXCEPT !.pc = "convert", !.ai_data = d]
       \/ ex' = [ex EXCEPT !.pc = "finish"]
    /\ UNCHANGED <<aside, mg, config, batch, counters, ghost, callbacks>>

\* ai_result = self._convert_ai_result_to_extraction(ai_data); a TypeError
\* is no MistralProcessorError and reaches the outer handler
Convert ==
    /\ ex.pc = "convert"
    /\ ex' = IF ConversionRaises(ex.ai_data)
               THEN ExRaise
               ELSE [ex EXCEPT !.pc = "finish",
                               !.ai_result = _convert_ai_result_to_extraction(ex.ai_data)]
    /\ UNCHANGED <<aside, mg, config, batch, counters, ghost, callbacks>>

\* Step 5: final_result = pattern_result, or the merge when there is an
\* ai_result; return final_result, stats
Finish ==
    /\ ex.pc = "finish"
    /\ ex' = [ex EXCEPT !.pc = "returned",
                        !.final_result =
                            IF ex.ai_result = NoExtraction
                              THEN ex.pattern_result
                              ELSE _merge_extraction_results(ex.pattern_result,
                                                             ex.ai_result)]
    /\ UNCHANGED <<aside, mg, config, batch, counters, ghost, callbacks>>

NextFile ==
    \/ PatternExtract
    \/ DecideFallback
    \/ AiCall
    \/ AiRespond
    \/ Convert
    \/ Finish

SpecFile == InitFile /\ [][NextFile]_vars

\* ================================== _merge_extraction_results, stepwise
\* The same function statement by statement, with the Parameter objects
\* shared as Python shares them: a slot of all_variants holds a reference
\* to a parameter of one of the two arguments, and an assignment to
\* param.confidence writes into that argument.
Ref(side, v, p) == [side |-> side, v |-> v, p |-> p]

Deref(r) ==
    (IF r.side = "pattern" THEN mg.pattern_result ELSE mg.ai_result)
        .variants[r.v].parameters[r.p]

\* variant of SlotOfName that never finds the name
SlotOfName_never(refs, n) == 0

\* param.name in existing["parameters"]: the slot holding that name, 0: none
SlotOfName(refs, n) ==
    IF \E i \in DOMAIN refs : Deref(refs[i]).name = n
      THEN CHOOSE i \in DOMAIN refs : Deref(refs[i]).name = n
      ELSE 0

\* variant of RefDict that takes no parameter over
RefDict_empty(side, v, k) == <<>>

\* {param.name: param for param in variant.parameters}, the first k entries
RECURSIVE RefDict(_, _, _)
RefDict(side, v, k) ==
    IF k = 0 THEN <<>>
    ELSE LET d == RefDict(side, v, k - 1)
             r == Ref(side, v, k)
             i == SlotOfName(d, Deref(r).name)
         IN IF i = 0 THEN Append(d, r) ELSE [d EXCEPT ![i] = r]

\* all_variants after the first k pattern variants
RECURSIVE PatternEntries(_)
PatternEntries(k) ==
    IF k = 0 THEN <<>>
    ELSE LET d == PatternEntries(k - 1)
             v == mg.pattern_result.variants[k]
             e == [part_number |-> v.part_number, description |-> v.description,
                   parameters |-> RefDict("pattern", k, Len(v.parameters))]
             i == IndexOfPart(d, v.part_number)
         IN IF i = 0 THEN Append(d, e) ELSE [d EXCEPT ![i] = e]

\* param.confidence = c, written into the argument that owns the object
SetConfidence(m, r, c) ==
    IF r.side = "pattern"
      THEN [m EXCEPT !.pattern_result.variants[r.v].parameters[r.p].confidence = c]
      ELSE [m EXCEPT !.ai_result.variants[r.v].parameters[r.p].confidence = c]

\* the call _merge_extraction_results(pattern_result, ai_result)
InitMerge ==
    /\ file_paths = <<>>
    /\ max_workers = 1
    /\ mode = "sync"
    /\ has_db = FALSE
    /\ main_pc = "off"
    /\ setup_i = 1
    /\ total_files = 0
    /\ completed_files = 0
    /\ failed_files = 0
    /\ skipped_files = 0
    /\ total_parameters = 0
    /\ total_duration = 0
    /\ end_time = None
    /\ tasks = <<>>
    /\ pc = <<>>
    /\ running = 0
    /\ fut = <<>>
    /\ db = <<>>
    /\ extract_calls = <<>>
    /\ save_calls = <<>>
    /\ cb_seen = <<>>
    /\ cb_calls = <<>>
    /\ ex = ExIdle
    /\ rt = RtIdle
    /\ st = StIdle
    /\ bt = BtIdle
    /\ \E p \in MergePatternInputs, a \in MergeAiInputs :
         mg = [MgIdle EXCEPT !.pc = "pattern_loop", !.pattern0 = p, !.ai0 = a,
                             !.pattern_result = p, !.ai_result = a, !.calls = 1]

\* "Process pattern variants first"
MergePatternLoop ==
    /\ mg.pc = "pattern_loop"
    /\ mg' = [mg EXCEPT !.all_variants = PatternEntries(Len(mg.pattern_result.variants)),
                        !.vi = 1, !.pc = "ai_variant"]
    /\ UNCHANGED <<aside, ex, config, batch, counters, ghost, callbacks>>

\* "for variant in ai_result.variants": a known part number gets its empty
\* description filled and its parameters merged one by one, a new part
\* number is added with its parameters
MergeAiVariant ==
    /\ mg.pc = "ai_variant"
    /\ IF mg.vi > Len(mg.ai_result.variants)
         THEN mg' = [mg EXCEPT !.pc = "build"]
         ELSE LET v == mg.ai_result.variants[mg.vi]
                  i == IndexOfPart(mg.all_variants, v.part_number)
              IN IF i # 0
                   THEN mg' = [mg EXCEPT
                          !.all_variants[i].description =
                              IF @ = "" /\ v.description # "" THEN v.description ELSE @,
                          !.pi = 1, !.pc = "ai_param"]
                   ELSE mg' = [mg EXCEPT
                          !.all_variants = Append(@,
                              [part_number |-> v.part_number,
                               description |-> v.description,
                               parameters |-> RefDict("ai", mg.vi, Len(v.parameters))]),
                          !.vi = @ + 1]
    /\ UNCHANGED <<aside, ex, config, batch, counters, ghost, callbacks>>

\* "for param in variant.parameters": against a parameter of the same name
\* the strictly more confident object is kept in the slot and its
\* confidence is raised in place; a new name is added
MergeAiParam ==
    /\ mg.pc = "ai_param"
    /\ LET v == mg.ai_result.variants[mg.vi] IN
         IF mg.pi > Len(v.parameters)
           THEN mg' = [mg EXCEPT !.vi = @ + 1, !.pc = "ai_variant"]
           ELSE LET i == IndexOfPart(mg.all_variants, v.part_number)
                    param == Ref("ai", mg.vi, mg.pi)
                    slot == SlotOfName(mg.all_variants[i].parameters, Deref(param).name)
                    existing_param == mg.all_variants[i].parameters[slot]
                IN IF slot = 0
                     THEN mg' = [mg EXCEPT !.all_variants[i].parameters = Append(@, param),
                                           !.pi = @ + 1]
                     ELSE IF MoreConfident(Deref(param), Deref(existing_param))
                       THEN mg' = [SetConfidence(mg, param,
                                       Min(100, Deref(param).confidence + CONFIDENCE_BOOST))
                                   EXCEPT !.all_variants[i].parameters[slot] = param,
                                          !.pi = @ + 1]
                       ELSE mg' = [SetConfidence(mg, existing_param,
                                       Min(100, Deref(existing_param).confidence
                                                + CONFIDENCE_BOOST))
                                   EXCEPT !.pi = @ + 1]
    /\ UNCHANGED <<aside, ex, config, batch, counters, ghost, callbacks>>

\* supplier and product_family, the variants list built from all_variants,
\* and the return of the merged DatasheetExtraction
MergeBuild ==
    /\ mg.pc = "build"
    /\ mg' = [mg EXCEPT !.pc = "done", !.merged_result =
          DatasheetExtraction(
            IF mg.pattern_result.supplier = "Unknown" /\ mg.ai_result.supplier # "Unknown"
              THEN mg.ai_result.supplier ELSE mg.pattern_result.supplier,
            IF /\ mg.pattern_result.product_family = "General Electronics"
               /\ mg.ai_result.product_family # "Unknown"
              THEN mg.ai_result.product_family ELSE mg.pattern_result.product_family,
            [i \in DOMAIN mg.all_variants |->
                PartVariant(mg.all_variants[i].part_number,
                            [j \in DOMAIN mg.all_variants[i].parameters |->
                                Deref(mg.all_variants[i].parameters[j])],
                            mg.all_variants[i].description)],
            "merged")]
    /\ UNCHANGED <<aside, ex, config, batch, counters, ghost, callbacks>>

\* the caller merges the same two objects once more
MergeAgain ==
    /\ mg.pc = "done"
    /\ mg.calls = 1
    /\ mg' = [mg EXCEPT !.pc = "pattern_loop", !.calls = 2,
                        !.first_result = mg.merged_result,
                        !.merged_result = NoExtraction, !.all_variants = <<>>,
                        !.vi = 0, !.pi = 0, !.report = NoReport]
    /\ UNCHANGED <<aside, ex, config, batch, counters, ghost, callbacks>>

\* ---- validate_extraction
\* variants with a part number that is neither empty nor a placeholder
RECURSIVE ValidPartNumbers(_)
ValidPartNumbers(vs) ==
    IF vs = <<>> THEN 0
    ELSE (IF Head(vs).part_number # "" /\ ~StartsWithUnknown(Head(vs).part_number)
            THEN 1 ELSE 0) + ValidPartNumbers(Tail(vs))

\* The counting loop reads param.extraction_method, which no Parameter
\* has: the first parameter raises AttributeError.  Without parameters
\* total_params is 0, the "if total_params > 0" block is skipped and
\* quality_score stays 0.0.
validate_extraction(extraction) ==
    IF CountParams(extraction.variants) > 0
      THEN [NoReport EXCEPT !.outcome = "AttributeError"]
      ELSE [NoReport EXCEPT !.outcome = "returned",
                            !.valid_part_numbers = ValidPartNumbers(extraction.variants)]

\* validate_extraction(merged_result)
Validate ==
    /\ mg.pc = "done"
    /\ mg.report = NoReport
    /\ mg' = [mg EXCEPT !.report = validate_extraction(mg.merged_result)]
    /\ UNCHANGED <<aside, ex, config, batch, counters, ghost, callbacks>>

NextMerge ==
    \/ MergePatternLoop
    \/ MergeAiVariant
    \/ MergeAiParam
    \/ MergeBuild
    \/ MergeAgain
    \/ Validate

SpecMerge == InitMerge /\ [][NextMerge]_vars

\* ================================================================ claims
Counted == completed_files + failed_files + skipped_files

\* the unit's pipeline returned / raised / returned a dedup hit
Ok(u) == fut[u].kind = "ok"
Exc(u) == fut[u].kind = "exc"
Hit(u) == fut[u].kind = "ok" /\ fut[u].result.kind = "existing"

\* the unit's counter update has been applied
Tallied(u) == pc[u] \in {"rec_params", "rec_cb", "in_cb", "cb_logged", "finished"}

DistinctPaths == \A u, v \in Units : u # v => PathOf(u) # PathOf(v)

\* C1: when process_batch_sync / process_batch_async returns, end_time is
\* set, is_complete holds and completed + failed + skipped = total_files,
\* each unit having been counted exactly once (successes in completed or
\* skipped, failures in failed), for every list, max_workers and interleaving.
C1_BatchConservation ==
    main_pc = "returned" =>
        /\ end_time # None
        /\ is_complete
        /\ Counted = total_files
        /\ completed_files + skipped_files = Cardinality({u \in Units : Ok(u)})
        /\ failed_files = Cardinality({u \in Units : Exc(u)})

C1_Witness ==
    /\ main_pc = "returned"
    /\ max_workers >= 2
    /\ total_files >= 2
    /\ failed_files >= 1
    /\ completed_files >= 1

\* C2: in every reachable state completed + failed + skipped <= total_files,
\* is_complete holds exactly when the sum equals total_files, and while it
\* holds every unit's terminal status has been written and counted.
C2_CountersBounded ==
    /\ Counted <= total_files
    /\ is_complete <=> (Counted = total_files)
    /\ Counted = Cardinality({u \in Units : Tallied(u)})
    /\ is_complete =>
         \A u \in Units : /\ Tallied(u)
                          /\ PathOf(u) \in DOMAIN tasks
                          /\ ThisTask(u).status \in Terminal

C2_Witness ==
    /\ main_pc = "run"
    /\ total_files >= 2
    /\ is_complete
    /\ failed_files >= 1

\* C3: process_batch never raises because of one file; a file that cannot
\* be read, stat'd or parsed, a path that does not exist included, ends as
\* a failed task with its message.
C3_NeverRaises ==
    /\ main_pc # "raised"
    /\ main_pc = "returned" =>
         \A u \in Units : ~FileExists(PathOf(u)) =>
             /\ ThisTask(u).status = FAILED
             /\ ThisTask(u).error_message # None

\* C4: N distinct files, no dedup hit, k pipelines raise: on return
\* failed = k, completed = N - k, skipped = 0; a failed task has a
\* non-empty error_message and no result, a completed task a result and no
\* error_message.
C4_FailureIsolation ==
    (main_pc = "returned" /\ DistinctPaths /\ \A u \in Units : ~Hit(u)) =>
        /\ failed_files = Cardinality({u \in Units : Exc(u)})
        /\ completed_files = total_files - Cardinality({u \in Units : Exc(u)})
        /\ skipped_files = 0
        /\ \A u \in Units :
             /\ Exc(u) => /\ ThisTask(u).status = FAILED
                          /\ ThisTask(u).error_message \notin {None, ""}
                          /\ ThisTask(u).result = NoResult
             /\ Ok(u) => /\ ThisTask(u).status = COMPLETED
                         /\ ThisTask(u).result # NoResult
                         /\ ThisTask(u).result = fut[u].result
                         /\ ThisTask(u).error_message = None

C4_Witness ==
    /\ main_pc = "returned"
    /\ DistinctPaths
    /\ \A u \in Units : ~Hit(u)
    /\ total_files >= 2
    /\ \E u, v \in Units : Exc(u) /\ Ok(v)

\* C5: a file whose fingerprint the store already holds when it is
\* processed ends with status skipped and is counted in skipped_files, not
\* in completed_files.
C5_DedupHitIsSkipped ==
    (main_pc = "returned" /\ DistinctPaths) =>
        /\ \A u \in Units : Hit(u) => ThisTask(u).status = SKIPPED
        /\ skipped_files = Cardinality({u \in Units : Hit(u)})
        /\ completed_files = Cardinality({u \in Units : Ok(u) /\ ~Hit(u)})

\* C6: on a dedup hit neither extractor is invoked and save_datasheet is
\* not called for that file, and the result carries the identity of the
\* stored record with the file's fingerprint (in the task once written).
C6_DedupHitDoesNoWork ==
    \A u \in Units : Hit(u) =>
        /\ extract_calls[u] = 0
        /\ save_calls[u] = 0
        /\ fut[u].result.existing_id \in 1..Len(db)
        /\ db[fut[u].result.existing_id] = _calculate_file_hash(PathOf(u))
        /\ pc[u] \in {"rec_count", "rec_params", "rec_cb", "in_cb", "cb_logged"} =>
             ThisTask(u).result = fut[u].result

C6_Witness ==
    \E u \in Units : Hit(u) /\ pc[u] = "rec_cb" /\ Len(db) = 1

\* C7: every status change of a FileTask is pending->processing or
\* processing->{completed, failed, skipped}; a terminal status is only
\* reached from processing with start_time set.
AllowedTransitions ==
    {<<PENDING, PROCESSING>>, <<PROCESSING, COMPLETED>>,
     <<PROCESSING, FAILED>>, <<PROCESSING, SKIPPED>>}

C7_TaskStateMachine ==
    [][\A p \in DOMAIN tasks :
         (p \in DOMAIN tasks' /\ tasks'[p].status # tasks[p].status) =>
            /\ <<tasks[p].status, tasks'[p].status>> \in AllowedTransitions
            /\ tasks'[p].status \in Terminal => tasks[p].start_time # None]_vars

\* C8: once a task is completed, failed or skipped (its outcome fully
\* recorded, no recording of that task in progress), its status, result and
\* error_message never change, also when the list names a file twice.
Settled(p) ==
    /\ tasks[p].status \in Terminal
    /\ running = 0 \/ PathOf(running) # p

C8_TerminalIsFinal ==
    [][\A p \in DOMAIN tasks : Settled(p) =>
         /\ tasks'[p].status = tasks[p].status
         /\ tasks'[p].result = tasks[p].result
         /\ tasks'[p].error_message = tasks[p].error_message]_vars

\* C9: at the granularity of field writes, a task whose status is completed
\* has end_time and result set, and a task whose status is failed has
\* end_time and error_message set.
C9_NoHalfWrittenTerminal ==
    \A p \in DOMAIN tasks :
        /\ tasks[p].status = COMPLETED =>
             tasks[p].end_time # None /\ tasks[p].result # NoResult
        /\ tasks[p].status = FAILED =>
             tasks[p].end_time # None /\ tasks[p].error_message # None

\* C10: before any per-file work starts the task map holds exactly one
\* pending task per entry of the input list, so the number of tasks equals
\* total_files, and total_files never changes.
C10_OneTaskPerEntry ==
    /\ total_files = Len(file_paths)
    /\ main_pc \in {"run", "returned"} => Cardinality(DOMAIN tasks) = total_files
    /\ (main_pc = "run" /\ \A u \in Units : pc[u] = "queued") =>
         \A p \in DOMAIN tasks : tasks[p] = FileTask

\* units whose per-file pipeline (_process_file / _process_file_async) has
\* started and has not yet returned or raised
InFlight == {u \in Units : pc[u] \in InPipeline}

\* C11: at every moment at most max_workers per-file pipelines are in
\* flight (and at most max_workers units hold a pool thread or the
\* semaphore); the other units are still queued or already past their
\* pipeline; in both runners.
C11_WorkerLimit ==
    /\ Cardinality(InFlight) <= max_workers
    /\ Cardinality(Active) <= max_workers
    /\ \A u \in Units : u \notin InFlight =>
         pc[u] \in {"queued", "set_start", "rec_status", "rec_end", "rec_result",
                    "rec_count", "rec_params", "rec_cb", "in_cb", "cb_logged",
                    "finished"}

C11_Witness ==
    /\ total_files > max_workers
    /\ Cardinality(InFlight) = max_workers
    /\ \E v \in Units : pc[v] = "queued"

\* C12: progress_callback is invoked once per list entry, after that
\* entry's task has its terminal status and the counters include it: the
\* k-th invocation sees completed + failed + skipped = k.
C12_CallbackAfterCounting ==
    /\ \A k \in DOMAIN cb_seen : cb_seen[k] = k
    /\ \A u \in Units :
         /\ cb_calls[u] = (IF pc[u] \in {"in_cb", "cb_logged", "finished"} THEN 1 ELSE 0)
         /\ pc[u] = "in_cb" => /\ ThisTask(u).status \in Terminal
                               /\ cb_seen[Len(cb_seen)] = Counted
    /\ main_pc = "returned" => Len(cb_seen) = total_files

C12_Witness ==
    /\ Len(cb_seen) = 2
    /\ failed_files >= 1
    /\ \E u \in Units : pc[u] = "in_cb"

\* C13: a progress_callback that raises does not abort the batch: the
\* runner never raises once a unit has started, and the step after the
\* raise leaves the runner exactly where a return of the callback leaves
\* it (counters, tasks, outcomes untouched, the unit finished), so the rest
\* of the run and the returned BatchResult are those of a run whose
\* callback returned.
C13_CallbackErrorIsLogged ==
    /\ [](main_pc = "raised" => \A u \in Units : pc[u] = "queued")
    /\ [][\A u \in Units : pc[u] = "cb_logged" =>
            /\ main_pc' = main_pc
            /\ pc'[u] # pc[u] =>
                 /\ pc' = [pc EXCEPT ![u] = "finished"]
                 /\ running' = 0
                 /\ UNCHANGED <<counters, tasks, fut, db, end_time, callbacks>>]_vars

C13_Witness ==
    \E u, v \in Units : pc[u] = "cb_logged" /\ pc[v] = "queued" /\ failed_files = 1

\* C14: the runner does not wait for progress_callback: while one
\* invocation has not returned, another unit whose pipeline is over can
\* have its terminal status recorded.
C14_CallbackDoesNotBlock ==
    \A u, v \in Units :
        (file_paths[u] # file_paths[v] /\ pc[u] = "in_cb" /\ pc[v] = "rec_status")
            => ENABLED RecordStatus(v)

\* C15: whichever runner ran, the returned BatchResult has the fields
\* populated and total_duration accumulated as process_batch_async does it
\* for the same outcomes: start_time and end_time set in every task,
\* total_duration the sum of one task duration per counted unit.
C15_SyncAsyncEquivalent ==
    main_pc = "returned" =>
        /\ \A p \in DOMAIN tasks : /\ tasks[p].start_time # None
                                   /\ tasks[p].end_time # None
        /\ total_duration = Counted * Elapsed

\* C16: a step that records one unit's outcome changes no task but the
\* one of that unit's path and no other unit's position or outcome; and a
\* task only changes by a step of a unit submitted with its path.
Recording == {"rec_status", "rec_end", "rec_result", "rec_count", "rec_params"}

C16_RecordingFrame ==
    [][/\ \A u \in Units : (pc[u] \in Recording /\ pc'[u] # pc[u]) =>
            /\ \A p \in DOMAIN tasks : p # file_paths[u] => tasks'[p] = tasks[p]
            /\ \A v \in Units \ {u} : pc'[v] = pc[v] /\ fut'[v] = fut[v]
            /\ db' = db
       /\ \A p \in DOMAIN tasks : (p \in DOMAIN tasks' /\ tasks'[p] # tasks[p]) =>
            \E u \in Units : file_paths[u] = p /\ pc'[u] # pc[u]]_vars

C16_Witness ==
    \E u, v \in Units :
        /\ file_paths[u] # file_paths[v]
        /\ pc[u] = "rec_result"
        /\ pc[v] = "finished"
        /\ tasks[file_paths[v]].status = FAILED
        /\ tasks[file_paths[u]].status = COMPLETED

\* C17: once the pattern extractor has succeeded and the AI extractor was
\* invoked, no failure of the AI step makes extract_from_file raise: the
\* call returns, and without an ai_result it returns the pattern result.
C17_FallbackFailureIsCaught ==
    ex.ai_calls > 0 =>
        /\ ex.pc # "raised"
        /\ (ex.pc = "returned" /\ ex.ai_result = NoExtraction) =>
             ex.final_result = ex.pattern_result

\* C18: the AI call is bounded by a timeout: while extract_from_pdf is
\* awaited some step is always possible, the abandonment of the call when
\* the service does not answer.
C18_FallbackCallTimesOut ==
    ex.pc = "ai_wait" => ENABLED NextFile

\* C19: without an AI extractor the AI step is never entered, whatever the
\* pattern result and force_ai, _needs_ai_extraction is false, and the call
\* returns the pattern result unchanged.
C19_NoExtractorNoFallback ==
    (ex.pc # "off" /\ ~ex.has_ai) =>
        /\ ex.ai_calls = 0
        /\ ex.pc \notin {"ai_call", "ai_wait", "convert"}
        /\ ex.ai_result = NoExtraction
        /\ ex.pc \in {"finish", "returned"} => ex.needs_ai = ex.force_ai
        /\ ex.pc = "returned" => ex.final_result = ex.pattern_result

C19_Witness ==
    /\ ~ex.has_ai
    /\ ex.force_ai
    /\ ex.pc = "returned"
    /\ ex.pattern_result.variants =
         <<PartVariant("PN-1", <<Parameter("data_rate", "10G", 90)>>, "")>>
    /\ ex.final_result = ex.pattern_result

\* params_count >= 3, avg_confidence >= 0.6, supplier and product family
\* identified, a part number that is no placeholder
Sufficient(r, n, avg) ==
    /\ n >= MIN_PARAMETERS_THRESHOLD
    /\ avg >= MIN_PATTERN_CONFIDENCE
    /\ r.supplier # "Unknown"
    /\ r.product_family \notin {"General Electronics", "Unknown"}
    /\ \E i \in DOMAIN r.variants : ~StartsWithUnknown(r.variants[i].part_number)

\* C20: with force_ai = False, _needs_ai_extraction is false for every
\* pattern result that meets the thresholds, and the AI extractor is not
\* invoked.
C20_ThresholdsMet ==
    (/\ ex.pc \in {"ai_call", "ai_wait", "convert", "finish", "returned"}
     /\ ~ex.force_ai
     /\ Sufficient(ex.pattern_result, ex.params_count, ex.avg_confidence)) =>
        /\ ~ex.needs_ai
        /\ ex.ai_calls = 0
        /\ ex.pc \in {"finish", "returned"}

C20_Witness ==
    /\ ex.pc = "returned"
    /\ ex.has_ai
    /\ ~ex.force_ai
    /\ Sufficient(ex.pattern_result, ex.params_count, ex.avg_confidence)
    /\ ex.params_count = MIN_PARAMETERS_THRESHOLD
    /\ ex.avg_confidence = MIN_PATTERN_CONFIDENCE
    /\ ex.final_result = ex.pattern_result

\* the unidentified-family sentinels of the data model
FamilySentinels == {"General Electronics", "Unknown"}

\* C21: with an AI extractor configured, needs_ai is true exactly when
\* force_ai is set, or fewer than 3 parameters were found, or the average
\* confidence is below 0.6, or the supplier is "Unknown", or the product
\* family is a sentinel ("General Electronics" or "Unknown"), or no variant
\* has a part number that is no placeholder.
C21_DecisionIsOrOfConditions ==
    (ex.has_ai /\ ex.pc \in {"ai_call", "ai_wait", "convert", "finish", "returned"}) =>
        (ex.needs_ai <=>
            \/ ex.force_ai
            \/ ex.params_count < MIN_PARAMETERS_THRESHOLD
            \/ ex.avg_confidence < MIN_PATTERN_CONFIDENCE
            \/ ex.pattern_result.supplier = "Unknown"
            \/ ex.pattern_result.product_family \in FamilySentinels
            \/ \A i \in DOMAIN ex.pattern_result.variants :
                  StartsWithUnknown(ex.pattern_result.variants[i].part_number))

\* the stepwise merge returns what the operator _merge_extraction_results
\* returns for the same argument values
MergeStepsAgree ==
    (mg.pc = "done" /\ mg.calls = 1) =>
        mg.merged_result = _merge_extraction_results(mg.pattern0, mg.ai0)

\* ---- claims about _merge_extraction_results and validate_extraction
\* the first call has returned
Merged == mg.pc = "done" /\ mg.calls = 1

PartNumbers(vs) == {vs[i].part_number : i \in DOMAIN vs}

Names(ps) == {ps[i].name : i \in DOMAIN ps}

VariantOf(vs, pn) == vs[IndexOfPart(vs, pn)]

ParamOf(vs, pn, n) ==
    VariantOf(vs, pn).parameters[IndexOfName(VariantOf(vs, pn).parameters, n)]

\* the data model's keys: one variant per part number, one parameter per name
UniqueKeys(vs) ==
    /\ \A i, j \in DOMAIN vs : vs[i].part_number = vs[j].part_number => i = j
    /\ \A i \in DOMAIN vs : \A j, k \in DOMAIN vs[i].parameters :
          vs[i].parameters[j].name = vs[i].parameters[k].name => j = k

WellFormedInputs == UniqueKeys(mg.pattern0.variants) /\ UniqueKeys(mg.ai0.variants)

\* <<part number, name>> of the parameters both arguments hold
Shared ==
    {<<pn, n>> \in (PartNumbers(mg.pattern0.variants) \cap PartNumbers(mg.ai0.variants))
                   \X {"data_rate", "power_consumption", "temperature_range"} :
        /\ n \in Names(VariantOf(mg.pattern0.variants, pn).parameters)
        /\ n \in Names(VariantOf(mg.ai0.variants, pn).parameters)}

\* C22: for a name both sides hold under one part number, the merged
\* parameter is the AI one exactly when its confidence is strictly higher
\* (a tie keeps the pattern one), with confidence
\* min(1.0, kept confidence + 0.1); arguments with unique keys.
C22_HigherConfidenceKept ==
    (Merged /\ WellFormedInputs) =>
        \A k \in Shared :
            LET p == ParamOf(mg.pattern0.variants, k[1], k[2])
                a == ParamOf(mg.ai0.variants, k[1], k[2])
                m == ParamOf(mg.merged_result.variants, k[1], k[2])
                kept == IF a.confidence > p.confidence THEN a ELSE p
            IN /\ m.value = kept.value
               /\ m.confidence = Min(100, kept.confidence + CONFIDENCE_BOOST)

C22_Witness ==
    /\ Merged
    /\ WellFormedInputs
    /\ \E k \in Shared :
         /\ ParamOf(mg.pattern0.variants, k[1], k[2]).confidence
              = ParamOf(mg.ai0.variants, k[1], k[2]).confidence
         /\ ParamOf(mg.merged_result.variants, k[1], k[2]).value = "10G"
         /\ ParamOf(mg.merged_result.variants, k[1], k[2]).confidence = 90

\* C23: for a parameter both arguments hold with confidences in [0, 1],
\* the merged confidence is at least the larger of the two and at most 1.0.
C23_MergedConfidenceBounds ==
    (Merged /\ WellFormedInputs) =>
        \A k \in Shared :
            LET p == ParamOf(mg.pattern0.variants, k[1], k[2])
                a == ParamOf(mg.ai0.variants, k[1], k[2])
                m == ParamOf(mg.merged_result.variants, k[1], k[2])
            IN (p.confidence \in 0..100 /\ a.confidence \in 0..100) =>
                  /\ m.confidence >= p.confidence
                  /\ m.confidence >= a.confidence
                  /\ m.confidence <= 100

C23_Witness ==
    /\ Merged
    /\ WellFormedInputs
    /\ \E k \in Shared :
         /\ ParamOf(mg.pattern0.variants, k[1], k[2]).confidence = 95
         /\ ParamOf(mg.ai0.variants, k[1], k[2]).confidence = 60
         /\ ParamOf(mg.merged_result.variants, k[1], k[2]).confidence = 100

\* part numbers exactly one argument holds
OnlyPattern == PartNumbers(mg.pattern0.variants) \ PartNumbers(mg.ai0.variants)
OnlyAi == PartNumbers(mg.ai0.variants) \ PartNumbers(mg.pattern0.variants)

\* C24: a part number present in exactly one argument appears in the merged
\* result with the same description and the same parameters (names,
\* values, confidences, no boost); arguments with unique keys.
C24_SingleSideVariantUnchanged ==
    (Merged /\ WellFormedInputs) =>
        /\ \A pn \in OnlyPattern :
              /\ pn \in PartNumbers(mg.merged_result.variants)
              /\ VariantOf(mg.merged_result.variants, pn)
                   = VariantOf(mg.pattern0.variants, pn)
        /\ \A pn \in OnlyAi :
              /\ pn \in PartNumbers(mg.merged_result.variants)
              /\ VariantOf(mg.merged_result.variants, pn) = VariantOf(mg.ai0.variants, pn)

C24_Witness ==
    /\ Merged
    /\ WellFormedInputs
    /\ "PN-2" \in OnlyPattern
    /\ "PN-3" \in OnlyAi
    /\ "PN-1" \in PartNumbers(mg.pattern0.variants) \cap PartNumbers(mg.ai0.variants)
    /\ VariantOf(mg.merged_result.variants, "PN-2").parameters[1].confidence = 60
    /\ Len(VariantOf(mg.merged_result.variants, "PN-3").parameters) = 1

\* C25: after the merge has returned both arguments are as they were
\* before the call, and merging the same two arguments again returns what
\* the first call returned.
C25_MergeLeavesInputsAlone ==
    mg.pc = "done" =>
        /\ mg.pattern_result = mg.pattern0
        /\ mg.ai_result = mg.ai0
        /\ mg.calls = 2 => mg.merged_result = mg.first_result

\* C26: the merged supplier is the pattern one unless that is "Unknown" and
\* the AI one is not; the merged product family follows the same rule with
\* the sentinels "General Electronics" and "Unknown": a value that is no
\* sentinel is never replaced and the merged field is a sentinel only if
\* both arguments' fields are.
C26_SentinelPrecedence ==
    Merged =>
        /\ mg.merged_result.supplier =
              (IF mg.pattern0.supplier = "Unknown" /\ mg.ai0.supplier # "Unknown"
                 THEN mg.ai0.supplier ELSE mg.pattern0.supplier)
        /\ mg.pattern0.product_family \notin FamilySentinels =>
              mg.merged_result.product_family = mg.pattern0.product_family
        /\ mg.merged_result.product_family \in FamilySentinels =>
              /\ mg.pattern0.product_family \in FamilySentinels
              /\ mg.ai0.product_family \in FamilySentinels

\* getattr(param, "extraction_method", None)
Tag(param) ==
    IF "extraction_method" \in DOMAIN param THEN param.extraction_method ELSE None

\* C27: every parameter carries extraction_method in {pattern, ai, merged}:
\* pattern parameters are tagged pattern, and in a merged result a
\* parameter both sides hold is tagged merged while one only the AI side
\* holds is tagged ai.
C27_ProvenanceTags ==
    Merged =>
        /\ \A i \in DOMAIN mg.pattern0.variants :
              \A j \in DOMAIN mg.pattern0.variants[i].parameters :
                 Tag(mg.pattern0.variants[i].parameters[j]) = "pattern"
        /\ \A i \in DOMAIN mg.merged_result.variants :
              \A j \in DOMAIN mg.merged_result.variants[i].parameters :
                 Tag(mg.merged_result.variants[i].parameters[j])
                    \in {"pattern", "ai", "merged"}
        /\ \A k \in Shared :
              Tag(ParamOf(mg.merged_result.variants, k[1], k[2])) = "merged"
        /\ \A pn \in OnlyAi :
              \A j \in DOMAIN VariantOf(mg.merged_result.variants, pn).parameters :
                 Tag(VariantOf(mg.merged_result.variants, pn).parameters[j]) = "ai"

C29_MergedKeysUnique ==
    mg.pc = "done" => UniqueKeys(mg.merged_result.variants)

C29_Witness ==
    /\ Merged
    /\ ~UniqueKeys(mg.pattern0.variants)
    /\ ~UniqueKeys(mg.ai0.variants)
    /\ Shared # {}
    /\ Len(mg.merged_result.variants) = 1
    /\ Len(mg.merged_result.variants[1].parameters) = 1

\* the score the formula gives, in units of 1/3000:
\* 0.4*min(1, total/10) + 0.3*avg + 0.2*(critical found / 3) + 0.1*min(1, valid)
CriticalParams == {"temperature_range", "data_rate", "power_consumption"}

FoundCritical(vs) ==
    {n \in CriticalParams : \E i \in DOMAIN vs : n \in Names(vs[i].parameters)}

FormulaScore(r) ==
    LET total == CountParams(r.variants) IN
      120 * Min(10, total)
      + (IF total > 0 THEN (9 * ConfidenceSum(r.variants)) \div total ELSE 0)
      + 200 * Cardinality(FoundCritical(r.variants))
      + 300 * Min(1, ValidPartNumbers(r.variants))

\* C30: whenever validate_extraction returns a report, its quality_score is
\* the weighted formula over all parameters of the result, results without
\* parameters included.
C30_QualityScoreFormula ==
    mg.report.outcome = "returned" =>
        mg.report.quality_score = FormulaScore(mg.merged_result)

\* ---- BatchResult.success_rate and BatchResult.progress
\* Both are floats; the model holds them exactly in sixths (every quotient
\* by a total_files of 1, 2 or 3 is a whole number of sixths), so the value
\* 1.0 is 6 and the value 100.0 is 600.
success_rate ==
    IF total_files = 0 THEN 0
    ELSE ((completed_files * 6) \div total_files) * 100

progress ==
    IF total_files = 0 THEN 0
    ELSE (((completed_files + failed_files + skipped_files) * 6) \div total_files) * 100

\* C31: progress is (completed + failed + skipped) / total_files and
\* success_rate is completed / total_files, both fractions in [0, 1] and
\* both 0 for total_files = 0; for a batch that has files progress is 1
\* exactly when the batch is complete (an empty batch is complete at
\* progress 0).
C31_ProgressIsFraction ==
    /\ total_files > 0 =>
          /\ progress = (Counted * 6) \div total_files
          /\ success_rate = (completed_files * 6) \div total_files
    /\ total_files = 0 => progress = 0 /\ success_rate = 0
    /\ progress \in 0..6
    /\ success_rate \in 0..6
    /\ total_files > 0 => ((progress = 6) <=> is_complete)

\* ---- termination of a batch run
\* The pool threads and the event loop run whatever is ready, and a call of
\* an extractor or of the storage is one step that returns or raises: the
\* run does not stop while a step is possible.
SpecLive == Init /\ [][Next]_vars /\ WF_vars(Next)

AllExist == \A i \in DOMAIN file_paths : FileExists(file_paths[i])

AllTerminal ==
    /\ DOMAIN tasks = {file_paths[i] : i \in DOMAIN file_paths}
    /\ \A p \in DOMAIN tasks : tasks[p].status \in Terminal

\* C32: for every max_workers >= 1 and every list, with extractor and
\* storage calls that return or raise, process_batch eventually returns
\* with every FileTask in a terminal status, and a unit queued behind the
\* worker limit is eventually started.
C32_BatchTerminates ==
    /\ <>(main_pc = "returned" /\ AllTerminal)
    /\ \A u \in 1..(MaxFiles + 1) :
          (main_pc = "run" /\ u \in Units /\ pc[u] = "queued")
             ~> (u \in Units /\ pc[u] # "queued")

\* the same for a list whose files all exist
TerminatesWhenFilesExist ==
    /\ AllExist => <>(main_pc = "returned" /\ AllTerminal)
    /\ \A u \in 1..(MaxFiles + 1) :
          (main_pc = "run" /\ u \in Units /\ pc[u] = "queued")
             ~> (u \in Units /\ pc[u] # "queued")

\* ---- order of the extractors inside extract_from_file
\* C33: within one extract_from_file call the AI extractor is invoked at
\* most once, and only after the pattern extractor has returned a result
\* and needs_ai (force_ai or _needs_ai_extraction) was true with an AI
\* extractor configured; when the pattern extractor raises, the AI extractor
\* is never invoked and the call fails with the extraction error.
C33_FallbackOnceAfterPrimary ==
    /\ ex.ai_calls <= 1
    /\ ex.pc \in {"ai_wait", "convert"} => ex.ai_calls = 1
    /\ ex.ai_calls = 1 =>
          /\ ex.pattern_result \in PatternResults
          /\ ex.has_ai
          /\ ex.needs_ai
          /\ ex.needs_ai =
                (ex.force_ai \/ _needs_ai_extraction(ex.pattern_result,
                                     CountParams(ex.pattern_result.variants),
                                     AvgConfidence(ex.pattern_result.variants)))
    /\ ex.pattern_result = NoExtraction =>
          /\ ex.ai_calls = 0
          /\ ex.pc \in {"pattern", "raised", "off"}
          /\ ex.pc = "raised" => ex.error = ExtractErrorMsg

C33_Witness ==
    /\ ex.pc = "returned"
    /\ ex.ai_calls = 1
    /\ ~ex.force_ai
    /\ ex.params_count > 0

\* ============================== MistralProcessor.extract_from_pdf, retried
\* One call of extract_from_pdf through its backoff.on_exception decorator.
\* Exceptions are named by their class.
MAX_RETRIES == 3

\* what the API answers to the successive calls of client.chat.complete
Answers == {"ok", "rate_limit", "connection", "api_error", "bad_json"}

\* the exception an answer makes the body of _process_text_with_mistral raise
ExceptionOf(answer) ==
    CASE answer = "rate_limit" -> "MistralRateLimitError"
      [] answer = "connection" -> "MistralConnectionError"
      [] answer = "api_error" -> "MistralAPIError"
      [] OTHER -> "JSONDecodeError"

\* the except clauses of _process_text_with_mistral: MistralAPIError,
\* json.JSONDecodeError and Exception are all re-raised as
\* MistralProcessorError
_process_text_with_mistral_raises(e) == "MistralProcessorError"

\* "except Exception as e: raise MistralProcessorError(...)" of
\* extract_from_pdf
extract_from_pdf_raises(e) == "MistralProcessorError"

\* the exception classes the decorator retries on
RetryOn == {"MistralRateLimitError", "MistralConnectionError"}

\* max_tries = MAX_RETRIES: the decorator gives up at that many tries
GiveUp(tries) == tries >= MAX_RETRIES

InitRetry ==
    /\ NoBatch
    /\ ex = ExIdle
    /\ mg = MgIdle
    /\ st = StIdle
    /\ bt = BtIdle
    /\ \E answers \in [1..(MAX_RETRIES + 1) -> Answers], text_ok \in BOOLEAN :
         rt = [RtIdle EXCEPT !.pc = "call", !.answers = answers, !.text_ok = text_ok]

\* the decorator calls the wrapped coroutine
RetryInvoke ==
    /\ rt.pc = "call"
    /\ rt' = [rt EXCEPT !.pc = "text", !.tries = @ + 1]
    /\ UNCHANGED <<ex, mg, st, bt, config, batch, counters, ghost, callbacks>>

\* the temporary file and _extract_text_from_pdf: an error is caught by
\* the except of extract_from_pdf
ExtractText ==
    /\ rt.pc = "text"
    /\ rt' = IF rt.text_ok
               THEN [rt EXCEPT !.pc = "api"]
               ELSE [rt EXCEPT !.pc = "handle",
                               !.escaped = extract_from_pdf_raises("MistralProcessorError")]
    /\ UNCHANGED <<ex, mg, st, bt, config, batch, counters, ghost, callbacks>>

\* _process_text_with_mistral: one call of client.chat.complete; a good
\* answer is converted and returned, an error passes both handlers
ApiCall ==
    /\ rt.pc = "api"
    /\ LET answer == rt.answers[rt.api_calls + 1] IN
         rt' = IF answer = "ok"
                 THEN [rt EXCEPT !.pc = "returned", !.api_calls = @ + 1]
                 ELSE [rt EXCEPT !.pc = "handle", !.api_calls = @ + 1,
                                 !.escaped = extract_from_pdf_raises(
                                     _process_text_with_mistral_raises(
                                         ExceptionOf(answer)))]
    /\ UNCHANGED <<ex, mg, st, bt, config, batch, counters, ghost, callbacks>>

\* the decorator sees the exception that left extract_from_pdf: it waits
\* and calls again for a class it retries on while tries are left, and
\* lets every other exception through
Backoff ==
    /\ rt.pc = "handle"
    /\ rt' = IF rt.escaped \in RetryOn /\ ~GiveUp(rt.tries)
               THEN [rt EXCEPT !.pc = "call", !.waits = @ + 1, !.escaped = None]
               ELSE [rt EXCEPT !.pc = "raised", !.raised = rt.escaped]
    /\ UNCHANGED <<ex, mg, st, bt, config, batch, counters, ghost, callbacks>>

NextRetry ==
    \/ RetryInvoke
    \/ ExtractText
    \/ ApiCall
    \/ Backoff

SpecRetry == InitRetry /\ [][NextRetry]_vars

\* the service answers every attempt with a rate-limit or connection error
AlwaysThrottled ==
    /\ rt.text_ok
    /\ \A k \in DOMAIN rt.answers : rt.answers[k] \in {"rate_limit", "connection"}

\* C34: when every attempt is answered with a rate-limit or connection
\* error, extract_from_pdf has made MAX_RETRIES + 1 API calls, with a
\* backoff wait between them, when it fails with MistralProcessorError.
C34_RetriesBeforeFailing ==
    (AlwaysThrottled /\ rt.pc = "raised") =>
        /\ rt.raised = "MistralProcessorError"
        /\ rt.api_calls = MAX_RETRIES + 1
        /\ rt.waits = MAX_RETRIES

\* ==================================== DatabaseManager.save_datasheet
\* Calls of save_datasheet made one after the other on one database.
MaxSaves == 3

\* the file_hash argument: None (the default) or a fingerprint
SaveHashes == {None, "h1", "h2"}

\* the data argument: its "variants" as <<part_number, parameter names>>
SaveData ==
    {<<[part_number |-> "PN-1", parameters |-> <<"data_rate", "power_consumption">>]>>,
     <<[part_number |-> "PN-1", parameters |-> <<"data_rate">>],
       [part_number |-> "PN-2", parameters |-> <<>>]>>}

\* variant of SelectByHash that finds no row
SelectByHash_none(rows, file_hash) == 0

\* SELECT id FROM datasheets WHERE file_hash = ?  and fetchone (0: no row)
SelectByHash(rows, file_hash) ==
    IF \E i \in DOMAIN rows : rows[i] = file_hash
      THEN CHOOSE i \in DOMAIN rows :
             rows[i] = file_hash /\ \A j \in 1..(i - 1) : rows[j] # file_hash
      ELSE 0

\* _save_parameters: one row per parameter of every variant
RECURSIVE _save_parameters(_, _, _)
_save_parameters(rows, datasheet_id, variants) ==
    IF variants = <<>> THEN rows
    ELSE _save_parameters(
           rows \o [k \in DOMAIN Head(variants).parameters |->
                      [datasheet_id |-> datasheet_id,
                       part_number |-> Head(variants).part_number,
                       parameter_name |-> Head(variants).parameters[k]]],
           datasheet_id, Tail(variants))

\* _save_parts: INSERT OR IGNORE, part_number being UNIQUE
RECURSIVE _save_parts(_, _, _)
_save_parts(rows, datasheet_id, variants) ==
    IF variants = <<>> THEN rows
    ELSE _save_parts(
           IF \E i \in DOMAIN rows : rows[i].part_number = Head(variants).part_number
             THEN rows
             ELSE Append(rows, [part_number |-> Head(variants).part_number,
                                datasheet_id |-> datasheet_id]),
           datasheet_id, Tail(variants))

InitStore ==
    /\ NoBatch
    /\ ex = ExIdle
    /\ mg = MgIdle
    /\ rt = RtIdle
    /\ bt = BtIdle
    /\ st = [StIdle EXCEPT !.open = TRUE]

\* one call of save_datasheet: the SELECT by file_hash when a file_hash is
\* given, the INSERT, the parameter and part rows for status 'complete',
\* the commit; an sqlite error leaves the tables as they were and raises
\* DatabaseError (returned = 0)
save_datasheet ==
    /\ st.open
    /\ st.saves < MaxSaves
    /\ \E file_hash \in SaveHashes, variants \in SaveData,
          status \in {"complete", "pending"}, ok \in BOOLEAN :
         LET existing == IF file_hash # None
                           THEN SelectByHash(st.datasheets, file_hash) ELSE 0
             datasheet_id == Len(st.datasheets) + 1
             call == [file_hash |-> file_hash, existing |-> existing, returned |-> 0]
         IN IF ~ok
              THEN st' = [st EXCEPT !.saves = @ + 1, !.last = call]
              ELSE IF existing # 0
                THEN st' = [st EXCEPT !.saves = @ + 1,
                                      !.last = [call EXCEPT !.returned = existing]]
                ELSE st' = [st EXCEPT
                       !.saves = @ + 1,
                       !.datasheets = Append(@, file_hash),
                       !.parameters = IF status = "complete"
                                        THEN _save_parameters(@, datasheet_id, variants)
                                        ELSE @,
                       !.parts = IF status = "complete"
                                   THEN _save_parts(@, datasheet_id, variants)
                                   ELSE @,
                       !.last = [call EXCEPT !.returned = datasheet_id]]
    /\ UNCHANGED <<ex, mg, rt, bt, config, batch, counters, ghost, callbacks>>

NextStore == save_datasheet

SpecStore == InitStore /\ [][NextStore]_vars

\* C35: in every sequence of saves, a save with a file_hash that is already
\* stored adds no datasheet, parameter or part row, and when it returns it
\* returns the id of the stored record.
C35_SaveIsIdempotentPerHash ==
    [][(st'.saves = st.saves + 1
          /\ st'.last.file_hash # None
          /\ \E i \in DOMAIN st.datasheets : st.datasheets[i] = st'.last.file_hash) =>
         /\ st'.datasheets = st.datasheets
         /\ st'.parameters = st.parameters
         /\ st'.parts = st.parts
         /\ st'.last.returned # 0 =>
               /\ st'.last.returned \in DOMAIN st.datasheets
               /\ st.datasheets[st'.last.returned] = st'.last.file_hash]_vars

C35_Witness ==
    /\ st.saves = 3
    /\ st.last.file_hash = "h1"
    /\ st.last.existing = 1
    /\ st.last.returned = 1
    /\ Len(st.datasheets) = 2
    /\ st.datasheets[2] = None
    /\ Len(st.parameters) = 2

\* ---- two workers saving files of identical content
\* the stored record a result refers to
RecordOf(r) == IF r.kind = "existing" THEN r.existing_id ELSE r.datasheet_id

\* C36: in every interleaving of the workers the datasheets table never
\* holds two records for one fingerprint, no task of a list of distinct
\* files fails because another worker was recording at the same time, and
\* the tasks of two files with one fingerprint end with results that refer
\* to the one stored record.
C36_ConcurrentDedup ==
    /\ \A i, j \in DOMAIN db : db[i] = db[j] => i = j
    /\ DistinctPaths => \A u \in Units : Exc(u) => fut[u].msg # LockedErrorMsg
    /\ (main_pc = "returned" /\ has_db) =>
          \A u, v \in Units :
             (Ok(u) /\ Ok(v)
                /\ _calculate_file_hash(PathOf(u)) = _calculate_file_hash(PathOf(v))) =>
               /\ RecordOf(fut[u].result) = RecordOf(fut[v].result)
               /\ db[RecordOf(fut[u].result)] = _calculate_file_hash(PathOf(u))

\* short of the failed task, the race leaves the table consistent
StoreStaysConsistent ==
    /\ \A i, j \in DOMAIN db : db[i] = db[j] => i = j
    /\ (main_pc = "returned" /\ has_db) =>
          \A u, v \in Units :
             (Ok(u) /\ Ok(v)
                /\ _calculate_file_hash(PathOf(u)) = _calculate_file_hash(PathOf(v))) =>
               /\ RecordOf(fut[u].result) = RecordOf(fut[v].result)
               /\ db[RecordOf(fut[u].result)] = _calculate_file_hash(PathOf(u))

\* ---- total_parameters
\* the units whose outcome is recorded in full, parameter count included
Recorded == {u \in Units : pc[u] \in {"rec_cb", "in_cb", "cb_logged", "finished"}}

\* parameters across the variants of a unit's result: those of an
\* extraction that succeeded, 0 for a failure and for a dedup hit
Contribution(u) ==
    IF Ok(u) /\ ~Hit(u) THEN fut[u].result.params ELSE 0

RECURSIVE SumContribution(_)
SumContribution(S) ==
    IF S = {} THEN 0
    ELSE LET u == CHOOSE x \in S : TRUE
         IN Contribution(u) + SumContribution(S \ {u})

\* the same sum taken over the task map
TaskParams(p) ==
    IF tasks[p].status = COMPLETED /\ tasks[p].result.kind = "extraction"
      THEN tasks[p].result.params ELSE 0

RECURSIVE SumTaskParams(_)
SumTaskParams(S) ==
    IF S = {} THEN 0
    ELSE LET p == CHOOSE x \in S : TRUE
         IN TaskParams(p) + SumTaskParams(S \ {p})

C38_LookupFailureIsNotFound ==
    [][\A u \in Units :
         (pc[u] = "hash" /\ pc'[u] # "hash") =>
            \/ pc'[u] = "extract" /\ fut'[u] = fut[u]
            \/ pc'[u] = "rec_status" /\ fut'[u] = Raised(IOErrorMsg)
            \/ /\ pc'[u] = "rec_status"
               /\ has_db
               /\ FindByHash(_calculate_file_hash(PathOf(u))) # 0
               /\ fut'[u] = Returned(ExistingResult(
                                FindByHash(_calculate_file_hash(PathOf(u)))),
                                     "skipped_stats")]_vars

\* one worker: the first file's record was stored before the second file
\* was looked up, the lookup failed and the second file is extracted
C38_Witness ==
    /\ has_db
    /\ max_workers = 1
    /\ Len(file_paths) = 2
    /\ db = <<_calculate_file_hash(file_paths[2])>>
    /\ Ok(1)
    /\ fut[1].result.datasheet_id = 1
    /\ pc[2] = "extract"

\* ================================ IntegratedExtractor.extract_from_bytes
\* One call of extract_from_bytes: the temporary file, the call of
\* extract_from_file on it (the steps above), the clean-up.
\* bt.tmp_files counts the temporary files of this call that exist.
InitBytes ==
    /\ NoBatch
    /\ mg = MgIdle
    /\ rt = RtIdle
    /\ st = StIdle
    /\ bt = [BtIdle EXCEPT !.pc = "create"]
    /\ \E has_ai \in BOOLEAN, force_ai \in BOOLEAN, service \in {"responds", "silent"} :
         ex = [ExIdle EXCEPT !.has_ai = has_ai, !.force_ai = force_ai,
                             !.service = service]

\* "with tempfile.NamedTemporaryFile(delete=False, suffix='.pdf') as
\* tmp_file: tmp_file.write(file_content); tmp_path = tmp_file.name", then
\* extract_from_file(tmp_path, force_ai) is called.  The file may not be
\* created at all; a write that fails leaves the file (delete=False) and
\* tmp_path unassigned; both errors reach the except clause.
BytesCreate ==
    /\ bt.pc = "create"
    /\ \/ /\ bt' = [bt EXCEPT !.pc = "extract", !.tmp_files = 1, !.tmp_path = "tmp.pdf"]
          /\ ex' = [ex EXCEPT !.pc = "pattern"]
       \/ /\ bt' = [bt EXCEPT !.pc = "raised", !.error = ExtractErrorMsg]
          /\ ex' = ex
       \/ /\ bt' = [bt EXCEPT !.pc = "raised", !.tmp_files = 1,
                               !.error = ExtractErrorMsg]
          /\ ex' = ex
    /\ UNCHANGED <<mg, rt, st, config, batch, counters, ghost, callbacks>>

\* extract_from_file returned: os.unlink(tmp_path); return result, stats
BytesUnlink ==
    /\ bt.pc = "extract"
    /\ ex.pc = "returned"
    /\ bt' = [bt EXCEPT !.pc = "returned", !.tmp_files = @ - 1]
    /\ UNCHANGED <<ex, mg, rt, st, config, batch, counters, ghost, callbacks>>

\* extract_from_file raised: "except Exception as e: raise
\* AIIntegrationError(...)"; the os.unlink line is not reached
BytesRaise ==
    /\ bt.pc = "extract"
    /\ ex.pc = "raised"
    /\ bt' = [bt EXCEPT !.pc = "raised", !.error = ExtractErrorMsg]
    /\ UNCHANGED <<ex, mg, rt, st, config, batch, counters, ghost, callbacks>>

NextBytes ==
    \/ BytesCreate
    \/ NextFile
    \/ BytesUnlink
    \/ BytesRaise

SpecBytes == InitBytes /\ [][NextBytes]_vars

\* C39: on every path out of extract_from_bytes, return or extraction
\* error, the temporary PDF the call wrote has been removed.
C39_NoTemporaryFileLeft ==
    (bt.pc \in {"returned", "raised"} /\ bt.tmp_path # None) => bt.tmp_files = 0

====
